---------------------------- MODULE Spec2Model ----------------------------
(***************************************************************************)
(* Model of xano_mcp.py: credential resolution (get_token), the outbound   *)
(* request dispatcher (make_api_request), identifier normalisation         *)
(* (format_id), the MCP tool handlers built on them, and main().           *)
(*                                                                         *)
(* Python values are modelled as follows.                                  *)
(*   - None is the string PyNone.                                          *)
(*   - A JSON value is a record [type, members]: members is the sequence   *)
(*     of <<key, value text>> pairs of an object (or <<index, value text>> *)
(*     of an array, or the single literal of a number).                    *)
(*   - An exception is a record [cls, msg]; NoExc stands for "none".       *)
(*   - A text whose characters matter (an identifier given to format_id)   *)
(*     is a sequence of one-character strings; Str turns it into a string. *)
(***************************************************************************)
EXTENDS Integers, Sequences, FiniteSets, TLC

VARIABLES
    proc,      \* the process: "init", "serving" or "exited"
    environ,   \* os.environ.get("XANO_API_TOKEN"): PyNone when unset
    handler,   \* the tool invocation the runtime is running
    call,      \* the make_api_request call of that invocation
    twin,      \* the same call with the debug flag inverted (for comparison)
    fmt        \* one identifier going through format_id and into a URL

vars == <<proc, environ, handler, call, twin, fmt>>

PyNone == "None"

(***************************************************************************)
(* Python truthiness of the values that occur: None, the empty string and  *)
(* the empty mapping are falsy.                                            *)
(***************************************************************************)
Truthy(v) == v \notin {PyNone, "", "{}"}

---------------------------------------------------------------------------
(* JSON values and exceptions *)

Obj(m) == [type |-> "object", members |-> m]
Arr(m) == [type |-> "array", members |-> m]
Num(t) == [type |-> "number", members |-> << <<"", t>> >>]
NoValue == [type |-> "", members |-> << >>]

\* The dict {"error": msg}: the only shape of error the program builds.
ErrorDescriptor(msg) == Obj(<< <<"error", "\"" \o msg \o "\"">> >>)

NoExc == [cls |-> "", msg |-> ""]

\* Python's class hierarchy for the exception classes that occur.
Bases(cls) ==
    CASE cls = "JSONDecodeError"    -> {"JSONDecodeError", "ValueError", "Exception"}
      [] cls = "UnicodeDecodeError" -> {"UnicodeDecodeError", "ValueError", "Exception"}
      [] cls = "RecursionError"     -> {"RecursionError", "Exception"}
      [] cls = "ValueError"         -> {"ValueError", "Exception"}
      [] cls = "TypeError"          -> {"TypeError", "Exception"}
      [] cls = "ConnectError"       -> {"ConnectError", "HTTPError", "Exception"}
      [] cls = "ReadTimeout"        -> {"ReadTimeout", "HTTPError", "Exception"}
      [] cls = "SystemExit"         -> {"SystemExit"}
      [] OTHER                      -> {cls}

IsInstance(e, cls) == cls \in Bases(e.cls)

---------------------------------------------------------------------------
(* The remote API, as make_api_request sees it *)

SupportedMethods == {"GET", "POST", "PUT", "DELETE", "PATCH"}
Methods == SupportedMethods \cup {"HEAD", "get"}

StatusCodes == {200, 201, 404, 500}

Bodies == { "{\"id\":1,\"name\":\"default\"}", "{}", "[]", "{\"error\":\"quota\"}",
            "{\"instances\":[]}", "42", "<html>", "", "\\x80", "[[[[...]]]]" }

\* response.json(): the decoded value, or the exception json.loads raises.
\* An empty or non-JSON text raises JSONDecodeError; bytes that are not valid
\* UTF-8 raise UnicodeDecodeError and a too deeply nested text RecursionError,
\* neither of which is a JSONDecodeError.
ResponseJson(body) ==
    CASE body = "{\"id\":1,\"name\":\"default\"}" ->
            [exc |-> NoExc, value |-> Obj(<< <<"id", "1">>, <<"name", "\"default\"">> >>)]
      [] body = "{}" -> [exc |-> NoExc, value |-> Obj(<< >>)]
      [] body = "[]" -> [exc |-> NoExc, value |-> Arr(<< >>)]
      [] body = "{\"error\":\"quota\"}" ->
            [exc |-> NoExc, value |-> Obj(<< <<"error", "\"quota\"">> >>)]
      [] body = "{\"instances\":[]}" ->
            [exc |-> NoExc, value |-> Obj(<< <<"instances", "[]">> >>)]
      [] body = "42" -> [exc |-> NoExc, value |-> Num("42")]
      [] body = "\\x80" ->
            [exc |-> [cls |-> "UnicodeDecodeError",
                      msg |-> "'utf-8' codec can't decode byte 0x80 in position 0: invalid start byte"],
             value |-> NoValue]
      [] body = "[[[[...]]]]" ->
            [exc |-> [cls |-> "RecursionError",
                      msg |-> "maximum recursion depth exceeded while decoding a JSON array"],
             value |-> NoValue]
      [] OTHER ->
            [exc |-> [cls |-> "JSONDecodeError",
                      msg |-> "Expecting value: line 1 column 1 (char 0)"],
             value |-> NoValue]

Decodable(body) == ResponseJson(body).exc = NoExc

\* What one awaited client call can end with: a response, or a transport fault.
Responses == [kind : {"response"}, status_code : StatusCodes, text : Bodies, exc : {NoExc}]
Faults == { [kind |-> "fault", status_code |-> 0, text |-> "", exc |-> e] :
            e \in { [cls |-> "ConnectError", msg |-> "All connection attempts failed"],
                    [cls |-> "ReadTimeout", msg |-> "The read operation timed out"] } }
Outcomes == Responses \cup Faults
NoOutcome == [kind |-> "", status_code |-> 0, text |-> "", exc |-> NoExc]

---------------------------------------------------------------------------
(* make_api_request *)

\* The arguments of one call and where the call stands. pc: "entry", "select",
\* "await" (the one suspension point), "status", "except", "done".
NewCall(url, headers, method, data, params, files, debug) ==
    [ url |-> url, headers |-> headers, method |-> method, data |-> data,
      params |-> params, files |-> files, debug |-> debug,
      pc |-> "entry", sent |-> << >>, response |-> NoOutcome, exc |-> NoExc,
      result |-> NoValue, returned |-> FALSE, raised |-> FALSE, log |-> << >> ]

NoCall == [ NewCall("", "", "", PyNone, PyNone, PyNone, FALSE) EXCEPT !.pc = "none" ]

\* An outbound request as handed to the httpx client; an argument that is not
\* passed has the client's default, None.
Request(verb, url, headers, params, json, data, files) ==
    [ verb |-> verb, url |-> url, headers |-> headers, params |-> params,
      json |-> json, data |-> data, files |-> files ]

LogIf(cond, log, line) == IF cond THEN Append(log, line) ELSE log

\* A variant of api_request_entry in which logging the body replaces it by the
\* truncated text that was logged.
api_request_entry_truncating(c) ==
    LET l1 == LogIf(c.debug, c.log, "Making " \o c.method \o " request to " \o c.url)
        l2 == LogIf(c.debug /\ Truthy(c.params), l1, "With params: " \o c.params)
        logsData == c.debug /\ Truthy(c.data) /\ ~Truthy(c.files)
        l3 == LogIf(logsData, l2, "With data: " \o c.data \o "...")
    IN  [c EXCEPT !.log = l3, !.pc = "select",
                  !.data = IF logsData THEN c.data \o "..." ELSE c.data]

\* Lines 51-57: the debug lines written before the request.
api_request_entry(c) ==
    LET l1 == LogIf(c.debug, c.log, "Making " \o c.method \o " request to " \o c.url)
        l2 == LogIf(c.debug /\ Truthy(c.params), l1, "With params: " \o c.params)
        l3 == LogIf(c.debug /\ Truthy(c.data) /\ ~Truthy(c.files), l2,
                    "With data: " \o c.data \o "...")
    IN  [c EXCEPT !.log = l3, !.pc = "select"]

\* Lines 60-80: the branch on method; the request each branch hands to the client.
MethodRequest(c) ==
    CASE c.method = "GET" ->
            Request("GET", c.url, c.headers, c.params, PyNone, PyNone, PyNone)
      [] c.method = "POST" /\ Truthy(c.files) ->
            Request("POST", c.url, c.headers, PyNone, PyNone, c.data, c.files)
      [] c.method = "POST" /\ ~Truthy(c.files) ->
            Request("POST", c.url, c.headers, PyNone, c.data, PyNone, PyNone)
      [] c.method = "PUT" ->
            Request("PUT", c.url, c.headers, PyNone, c.data, PyNone, PyNone)
      [] c.method = "DELETE" /\ Truthy(c.data) ->
            Request("DELETE", c.url, c.headers, PyNone, c.data, PyNone, PyNone)
      [] c.method = "DELETE" /\ ~Truthy(c.data) ->
            Request("DELETE", c.url, c.headers, PyNone, PyNone, PyNone, PyNone)
      [] c.method = "PATCH" ->
            Request("PATCH", c.url, c.headers, PyNone, c.data, PyNone, PyNone)

MethodHasBranch(method) == method \in {"GET", "POST", "PUT", "DELETE", "PATCH"}

\* A variant of api_request_select whose final branch falls back to GET.
api_request_select_fallback(c) ==
    IF MethodHasBranch(c.method)
    THEN [c EXCEPT !.sent = Append(c.sent, MethodRequest(c)), !.pc = "await"]
    ELSE [c EXCEPT !.sent = Append(c.sent, Request("GET", c.url, c.headers, c.params,
                                                   PyNone, PyNone, PyNone)),
                   !.pc = "await"]

\* Lines 59-80: issue the request of the matching branch, or raise ValueError.
api_request_select(c) ==
    IF MethodHasBranch(c.method)
    THEN [c EXCEPT !.sent = Append(c.sent, MethodRequest(c)), !.pc = "await"]
    ELSE [c EXCEPT !.exc = [cls |-> "ValueError",
                            msg |-> "Unsupported method: " \o c.method],
                   !.pc = "except"]

\* A variant of api_request_await that issues the request a second time when
\* the first attempt ends in a transport fault.
api_request_await_retrying(c, o) ==
    IF o.kind = "fault"
    THEN IF Len(c.sent) < 2
         THEN [c EXCEPT !.sent = Append(c.sent, c.sent[Len(c.sent)])]
         ELSE [c EXCEPT !.exc = o.exc, !.pc = "except"]
    ELSE [c EXCEPT !.response = o, !.pc = "status"]

\* Lines 61-78: the awaited client call ends with a response or raises.
api_request_await(c, o) ==
    IF o.kind = "fault"
    THEN [c EXCEPT !.exc = o.exc, !.pc = "except"]
    ELSE [c EXCEPT !.response = o, !.pc = "status"]

\* A variant of StatusIsOk that takes every 2xx status for success.
StatusIsOk_2xx(status_code) == status_code >= 200 /\ status_code < 300

\* Line 85.
StatusIsOk(status_code) == status_code = 200

\* Line 88: the inner handler's clause.
InnerCatches(e) == IsInstance(e, "JSONDecodeError")

\* A variant of JsonResult that nests the decoded value under a "data" field.
JsonResult_nested(j) ==
    Obj(<< <<"data", IF j.value.members = << >> THEN "" ELSE j.value.members[1][2]>> >>)

\* Line 87: return response.json()
JsonResult(j) == j.value

StatusErrorMessage(status_code) ==
    "API request failed with status " \o ToString(status_code)

\* Lines 82-97: the result for a response.
api_request_status(c) ==
    LET r  == c.response
        l1 == LogIf(c.debug, c.log, "Response status: " \o ToString(r.status_code))
        j  == ResponseJson(r.text)
    IN  IF StatusIsOk(r.status_code)
        THEN IF j.exc = NoExc
             THEN [c EXCEPT !.log = l1, !.result = JsonResult(j), !.returned = TRUE,
                            !.pc = "done"]
             ELSE IF InnerCatches(j.exc)
             THEN [c EXCEPT !.log = LogIf(c.debug, l1,
                                "Error parsing JSON response: " \o r.text \o "..."),
                            !.result = ErrorDescriptor("Failed to parse response as JSON"),
                            !.returned = TRUE, !.pc = "done"]
             ELSE [c EXCEPT !.log = l1, !.exc = j.exc, !.pc = "except"]
        ELSE [c EXCEPT !.log = LogIf(c.debug, l1, "Error response: " \o r.text \o "..."),
                       !.result = ErrorDescriptor(StatusErrorMessage(r.status_code)),
                       !.returned = TRUE, !.pc = "done"]

\* A variant of OuterCatches that catches the transport's errors only.
OuterCatches_http(e) == IsInstance(e, "HTTPError")

\* Line 98: the outer handler's clause.
OuterCatches(e) == IsInstance(e, "Exception")

\* Lines 98-101: an exception raised anywhere in the try block.
api_request_except(c) ==
    IF OuterCatches(c.exc)
    THEN [c EXCEPT !.log = LogIf(c.debug, c.log,
                               "Exception during API request: " \o c.exc.msg),
                   !.result = ErrorDescriptor("Exception during API request: " \o c.exc.msg),
                   !.returned = TRUE, !.pc = "done"]
    ELSE [c EXCEPT !.raised = TRUE, !.pc = "done"]

---------------------------------------------------------------------------
(* format_id and the texts it works on *)

MaxIdLen == 3      \* longest identifier text drawn as an input
MaxIntId == 12     \* largest integer identifier drawn as an input

DQ == "\""
SQ == "'"
IdChars == {"1", "2", DQ, SQ}

\* An identifier argument: None, an integer, or a text.
IdNone == [kind |-> "none", int |-> 0, chars |-> << >>]
IdInt(n) == [kind |-> "int", int |-> n, chars |-> << >>]
IdStr(s) == [kind |-> "str", int |-> 0, chars |-> s]

RECURSIVE Texts(_)
Texts(n) ==
    IF n = 0 THEN {<< >>}
    ELSE LET shorter == Texts(n - 1)
         IN  shorter \cup {Append(t, ch) : t \in {u \in shorter : Len(u) = n - 1},
                                           ch \in IdChars}

IdValues == {IdNone} \cup {IdInt(n) : n \in 0..MaxIntId}
            \cup {IdStr(t) : t \in Texts(MaxIdLen)}

DigitChar(d) == <<"0", "1", "2", "3", "4", "5", "6", "7", "8", "9">>[d + 1]

RECURSIVE Digits(_)
Digits(n) == IF n < 10 THEN <<DigitChar(n)>>
             ELSE Append(Digits(n \div 10), DigitChar(n % 10))

\* str(v), as a sequence of characters.
PyStr(v) ==
    CASE v.kind = "none" -> <<"N", "o", "n", "e">>
      [] v.kind = "int"  -> Digits(v.int)
      [] v.kind = "str"  -> v.chars

RECURSIVE LStrip(_, _)
LStrip(s, ch) == IF s # << >> /\ Head(s) = ch THEN LStrip(Tail(s), ch) ELSE s

RECURSIVE RStrip(_, _)
RStrip(s, ch) ==
    IF s # << >> /\ s[Len(s)] = ch THEN RStrip(SubSeq(s, 1, Len(s) - 1), ch) ELSE s

\* str.strip(ch): every leading and every trailing occurrence of ch removed.
Strip(s, ch) == RStrip(LStrip(s, ch), ch)

\* A variant of format_id that removes one quote from each end.
format_id_once(id_value) ==
    IF id_value.kind = "none" THEN IdNone
    ELSE LET t == PyStr(id_value)
         IN  IF Len(t) >= 2 /\ Head(t) = DQ /\ t[Len(t)] = DQ
             THEN IdStr(SubSeq(t, 2, Len(t) - 1))
             ELSE IdStr(t)

\* Lines 105-109.
format_id(id_value) ==
    IF id_value.kind = "none" THEN IdNone
    ELSE IdStr(Strip(PyStr(id_value), DQ))

RECURSIVE Str(_)
Str(s) == IF s = << >> THEN "" ELSE Head(s) \o Str(Tail(s))

\* An f-string's {v}.
Interp(v) == Str(PyStr(v))

---------------------------------------------------------------------------
(* The tools *)

XANO_GLOBAL_API == "https://app.xano.com/api:meta"

AuthTools == { "xano_list_instances", "xano_list_databases",
               "xano_get_workspace_details", "xano_list_tables",
               "xano_get_table_details", "xano_browse_table_content",
               "xano_search_table_content", "xano_get_table_record",
               "xano_create_table_record", "xano_update_table_record",
               "xano_delete_table_record" }
Tools == AuthTools \cup {"xano_get_instance_details"}

\* The identifier parameters each tool has (xano_list_tables calls its
\* workspace identifier database_name).
IdParams(tool) ==
    CASE tool \in {"xano_get_workspace_details", "xano_list_tables"} ->
            {"workspace_id"}
      [] tool \in {"xano_get_table_details", "xano_browse_table_content",
                   "xano_search_table_content", "xano_create_table_record"} ->
            {"workspace_id", "table_id"}
      [] tool \in {"xano_get_table_record", "xano_update_table_record",
                   "xano_delete_table_record"} ->
            {"workspace_id", "table_id", "record_id"}
      [] OTHER -> {}

IdTools == {t \in Tools : IdParams(t) # {}}

\* The parameters a tool passes through format_id before it builds the URL
\* (lines 224, 257, 293-294, 337-338, 383-384, 425-427, 459-460, 498-500,
\* 532-534).
Formatted(tool) == IdParams(tool)

NormalizeIds(tool, ids) ==
    [p \in DOMAIN ids |-> IF p \in Formatted(tool) THEN format_id(ids[p]) ELSE ids[p]]

MetaApi(instance_name) == "https://" \o instance_name \o ".n7c.xano.io/api:meta"

\* The URL f-string of each tool, over the identifiers as they stand.
ToolUrl(tool, instance_name, ids) ==
    LET meta_api == MetaApi(instance_name)
        ws  == Interp(ids.workspace_id)
        tb  == Interp(ids.table_id)
        rec == Interp(ids.record_id)
    IN  CASE tool = "xano_list_instances" -> XANO_GLOBAL_API \o "/auth/me"
          [] tool = "xano_list_databases" -> meta_api \o "/workspace"
          [] tool = "xano_get_workspace_details" -> meta_api \o "/workspace/" \o ws
          [] tool = "xano_list_tables" -> meta_api \o "/workspace/" \o ws \o "/table"
          [] tool = "xano_get_table_details" ->
                meta_api \o "/workspace/" \o ws \o "/table/" \o tb
          [] tool \in {"xano_browse_table_content", "xano_create_table_record"} ->
                meta_api \o "/workspace/" \o ws \o "/table/" \o tb \o "/content"
          [] tool = "xano_search_table_content" ->
                meta_api \o "/workspace/" \o ws \o "/table/" \o tb \o "/content/search"
          [] tool \in {"xano_get_table_record", "xano_update_table_record",
                       "xano_delete_table_record"} ->
                meta_api \o "/workspace/" \o ws \o "/table/" \o tb \o "/content/" \o rec
          [] OTHER -> ""

\* The URL a tool requests for the identifiers it was called with.
HandlerUrl(tool, instance_name, ids) ==
    ToolUrl(tool, instance_name, NormalizeIds(tool, ids))

ToolMethod(tool) ==
    CASE tool \in {"xano_search_table_content", "xano_create_table_record"} -> "POST"
      [] tool = "xano_update_table_record" -> "PUT"
      [] tool = "xano_delete_table_record" -> "DELETE"
      [] OTHER -> "GET"

RecordData == "{\"name\":\"widget\"}"

ToolData(tool) ==
    CASE tool = "xano_search_table_content" -> "{\"page\":1,\"per_page\":50}"
      [] tool \in {"xano_create_table_record", "xano_update_table_record"} -> RecordData
      [] OTHER -> PyNone

ToolParams(tool) ==
    IF tool = "xano_browse_table_content" THEN "{\"page\":1,\"per_page\":50}" ELSE PyNone

---------------------------------------------------------------------------
(* get_token and the config argument *)

\* The config argument of a tool: None, or a mapping with some of the keys
\* api_token and debug.
Config(none, keys, api_token, debug) ==
    [none |-> none, keys |-> keys, api_token |-> api_token, debug |-> debug]

ConfigNone == Config(TRUE, {}, PyNone, FALSE)

Configs == { ConfigNone,
             Config(FALSE, {}, PyNone, FALSE),
             Config(FALSE, {"debug"}, PyNone, TRUE),
             Config(FALSE, {"api_token"}, PyNone, FALSE),
             Config(FALSE, {"api_token"}, "", FALSE),
             Config(FALSE, {"api_token"}, "cfg-token", FALSE),
             Config(FALSE, {"api_token", "debug"}, "cfg-token", TRUE) }

ConfigTruthy(config) == ~config.none /\ config.keys # {}

EnvTruthy(token) == Truthy(token)

\* Lines 29-43: the token returned, or exit when sys.exit(1) is reached.
get_token(config, env) ==
    IF ConfigTruthy(config) /\ "api_token" \in config.keys
    THEN [exit |-> FALSE, token |-> config.api_token]
    ELSE IF EnvTruthy(env)
    THEN [exit |-> FALSE, token |-> env]
    ELSE [exit |-> TRUE, token |-> PyNone]

\* config.get('debug', False) if config else False
ConfigDebug(config) ==
    IF ConfigTruthy(config) /\ "debug" \in config.keys THEN config.debug ELSE FALSE

\* The headers every tool builds; only Authorization varies.
Headers(token) == "Authorization: Bearer " \o token
                  \o "; Content-Type: application/json; Accept: application/json"

---------------------------------------------------------------------------
(* What a tool makes of the dispatcher's result *)

RECURSIVE DumpMembers(_, _)
DumpMembers(m, isObject) ==
    IF m = << >> THEN ""
    ELSE (IF isObject THEN DQ \o Head(m)[1] \o DQ \o ":" ELSE "") \o Head(m)[2]
         \o (IF Len(m) > 1 THEN "," ELSE "") \o DumpMembers(Tail(m), isObject)

\* The JSON text of a value (to nest it in another).
Dumps(v) ==
    CASE v.type = "object" -> "{" \o DumpMembers(v.members, TRUE) \o "}"
      [] v.type = "array"  -> "[" \o DumpMembers(v.members, FALSE) \o "]"
      [] OTHER -> IF v.members = << >> THEN "null" ELSE v.members[1][2]

\* Python's  key in value : a key of a dict, an element of a list; any other
\* value here (a number) is not iterable.
Iterable(v) == v.type \in {"object", "array"}
PyContains(v, key) ==
    IF v.type = "object"
    THEN \E i \in 1..Len(v.members) : v.members[i][1] = key
    ELSE \E i \in 1..Len(v.members) : v.members[i][2] = DQ \o key \o DQ

ValueOf(v, key) ==
    LET i == CHOOSE i \in 1..Len(v.members) : v.members[i][1] = key
    IN  v.members[i][2]

NotIterable == [cls |-> "TypeError", msg |-> "argument of type 'int' is not iterable"]

\* Lines 139-148.
HardcodedInstances ==
    Obj(<< <<"instances", "[{\"name\":\"xnwv-v1z6-dvnr\",\"display\":\"Robert\"}]">> >>)

Returns(v) == [value |-> v, exc |-> NoExc]
Raises(e) == [value |-> NoValue, exc |-> e]

\* Lines 132-149.
list_instances_result(result) ==
    IF ~Iterable(result) THEN Raises(NotIterable)
    ELSE IF ~PyContains(result, "error") /\ PyContains(result, "instances")
    THEN IF result.type = "object"
         THEN Returns(Obj(<< <<"instances", ValueOf(result, "instances")>> >>))
         ELSE Raises([cls |-> "TypeError", msg |-> "list indices must be integers"])
    ELSE Returns(HardcodedInstances)

\* Lines 196-199 and 264-267.
wrapped_result(key, result) ==
    IF ~Iterable(result) THEN Raises(NotIterable)
    ELSE IF PyContains(result, "error") THEN Returns(result)
    ELSE Returns(Obj(<< <<key, Dumps(result)>> >>))

\* What the tool returns for the Result make_api_request gave it.
ToolResult(tool, result) ==
    CASE tool = "xano_list_instances" -> list_instances_result(result)
      [] tool = "xano_list_databases" -> wrapped_result("databases", result)
      [] tool = "xano_list_tables"    -> wrapped_result("tables", result)
      [] OTHER -> Returns(result)

\* Lines 160-168.
instance_details(instance_name) ==
    Obj(<< <<"name", DQ \o instance_name \o DQ>>,
           <<"xano_domain", DQ \o instance_name \o ".n7c.xano.io" \o DQ>>,
           <<"meta_api", DQ \o MetaApi(instance_name) \o DQ>> >>)

---------------------------------------------------------------------------
(* The process, the tool handlers and the calls they make *)

SampleIds == { IdStr(<<"1">>), IdStr(<<DQ, "1", DQ>>) }
InstanceNames == {"x"}

NoIds == [workspace_id |-> IdNone, table_id |-> IdNone, record_id |-> IdNone]

\* The identifier arguments a caller can give a tool: one of SampleIds for each
\* parameter the tool has.
ToolIds(tool) ==
    { ids \in [{"workspace_id", "table_id", "record_id"} -> SampleIds \cup {IdNone}] :
        \A p \in DOMAIN ids : (ids[p] = IdNone) <=> (p \notin IdParams(tool)) }

NoHandler ==
    [ tool |-> "", pc |-> "idle", config |-> ConfigNone, instance_name |-> "",
      ids |-> NoIds, token |-> PyNone, debug |-> FALSE, out |-> NoValue, exc |-> NoExc ]

\* The flipped-debug copy of a call.
Twin(c) == [c EXCEPT !.debug = ~c.debug]

Init ==
    /\ proc = "init"
    /\ environ \in {PyNone, "", "env-token"}
    /\ handler = NoHandler
    /\ call = NoCall
    /\ twin = NoCall
    /\ fmt = [tool |-> "", slot |-> "", pc |-> "none", raw |-> NoIds, ids |-> NoIds,
              url |-> ""]

\* Lines 559-610: main() puts a --token argument into the environment and runs
\* the server; it does not call get_token.
Main ==
    /\ proc = "init"
    /\ \E token \in {PyNone, "", "cli-token"} :
          environ' = IF Truthy(token) THEN token ELSE environ
    /\ proc' = "serving"
    /\ UNCHANGED <<handler, call, twin, fmt>>

\* The runtime invokes a registered tool with parsed arguments.
ToolCall ==
    /\ proc = "serving"
    /\ handler.pc = "idle"
    /\ \E tool \in Tools, config \in Configs, inst \in InstanceNames :
         \E ids \in ToolIds(tool) :
            handler' = [NoHandler EXCEPT !.tool = tool, !.pc = "started",
                                         !.config = config, !.instance_name = inst,
                                         !.ids = ids]
    /\ UNCHANGED <<proc, environ, call, twin, fmt>>

\* token = get_token(config); debug = config.get('debug', False) ...
\* sys.exit(1) in get_token ends the process.
ToolGetToken ==
    /\ proc = "serving"
    /\ handler.pc = "started"
    /\ handler.tool \in AuthTools
    /\ LET t == get_token(handler.config, environ)
       IN  IF t.exit
           THEN /\ proc' = "exited"
                /\ handler' = [handler EXCEPT !.pc = "exited",
                                              !.exc = [cls |-> "SystemExit", msg |-> "1"]]
           ELSE /\ proc' = proc
                /\ handler' = [handler EXCEPT !.pc = "authorized", !.token = t.token,
                                              !.debug = ConfigDebug(handler.config)]
    /\ UNCHANGED <<environ, call, twin, fmt>>

\* Lines 153-168: xano_get_instance_details answers without a token or a request.
ToolInstanceDetails ==
    /\ proc = "serving"
    /\ handler.pc = "started"
    /\ handler.tool = "xano_get_instance_details"
    /\ handler' = [handler EXCEPT !.pc = "returned",
                                  !.out = instance_details(handler.instance_name)]
    /\ UNCHANGED <<proc, environ, call, twin, fmt>>

\* The tool normalises its identifiers, builds the URL and calls make_api_request.
ToolRequest ==
    /\ proc = "serving"
    /\ handler.pc = "authorized"
    /\ LET c == NewCall(HandlerUrl(handler.tool, handler.instance_name, handler.ids),
                        Headers(handler.token), ToolMethod(handler.tool),
                        ToolData(handler.tool), ToolParams(handler.tool), PyNone,
                        handler.debug)
       IN  /\ call' = c
           /\ twin' = Twin(c)
    /\ handler' = [handler EXCEPT !.pc = "awaiting",
                                  !.ids = NormalizeIds(handler.tool, handler.ids)]
    /\ UNCHANGED <<proc, environ, fmt>>

DirectUrls == {"https://x.n7c.xano.io/api:meta/workspace"}
DirectData == {PyNone, "{}", RecordData}
DirectParams == {PyNone, "{\"page\":1}"}
DirectFiles == {PyNone, "{\"file\":<bytes>}"}

\* make_api_request called on its own, with any Request Descriptor and any
\* method value.
DirectRequest ==
    /\ proc = "serving"
    /\ handler.pc = "idle"
    /\ \E url \in DirectUrls, method \in Methods, data \in DirectData,
          params \in DirectParams, files \in DirectFiles, debug \in BOOLEAN :
         LET c == NewCall(url, Headers("cli-token"), method, data, params, files, debug)
         IN  /\ call' = c
             /\ twin' = Twin(c)
    /\ handler' = [NoHandler EXCEPT !.tool = "make_api_request", !.pc = "awaiting"]
    /\ UNCHANGED <<proc, environ, fmt>>

\* The twin takes the step the call takes, when it stands at the same place.
Both(c, t, stepC, stepT) ==
    /\ call' = stepC
    /\ twin' = IF t.pc = c.pc THEN stepT ELSE t

ApiEntry ==
    /\ call.pc = "entry"
    /\ Both(call, twin, api_request_entry(call), api_request_entry(twin))
    /\ UNCHANGED <<proc, environ, handler, fmt>>

ApiSelect ==
    /\ call.pc = "select"
    /\ Both(call, twin, api_request_select(call), api_request_select(twin))
    /\ UNCHANGED <<proc, environ, handler, fmt>>

ApiAwait ==
    /\ call.pc = "await"
    /\ \E o \in Outcomes :
          Both(call, twin, api_request_await(call, o), api_request_await(twin, o))
    /\ UNCHANGED <<proc, environ, handler, fmt>>

ApiStatus ==
    /\ call.pc = "status"
    /\ Both(call, twin, api_request_status(call), api_request_status(twin))
    /\ UNCHANGED <<proc, environ, handler, fmt>>

ApiExcept ==
    /\ call.pc = "except"
    /\ Both(call, twin, api_request_except(call), api_request_except(twin))
    /\ UNCHANGED <<proc, environ, handler, fmt>>

\* The awaited make_api_request is over: the tool returns what it makes of the
\* Result (a direct caller just has it), or the exception goes on.
ToolReturn ==
    /\ handler.pc = "awaiting"
    /\ call.pc = "done"
    /\ LET r == IF call.raised THEN Raises(call.exc)
                ELSE ToolResult(handler.tool, call.result)
       IN  handler' = [handler EXCEPT !.pc = IF r.exc = NoExc THEN "returned" ELSE "raised",
                                      !.out = r.value, !.exc = r.exc]
    /\ UNCHANGED <<proc, environ, call, twin, fmt>>

\* The runtime has the tool's answer; the next invocation can start.
ToolFinish ==
    /\ handler.pc \in {"returned", "raised"}
    /\ handler' = NoHandler
    /\ call' = NoCall
    /\ twin' = NoCall
    /\ UNCHANGED <<proc, environ, fmt>>

Next ==
    \/ Main
    \/ ToolCall
    \/ ToolGetToken
    \/ ToolInstanceDetails
    \/ ToolRequest
    \/ DirectRequest
    \/ ApiEntry
    \/ ApiSelect
    \/ ApiAwait
    \/ ApiStatus
    \/ ApiExcept
    \/ ToolReturn
    \/ ToolFinish

Spec == Init /\ [][Next]_vars

---------------------------------------------------------------------------
(* Identifier normalisation on its own: every tool with identifier         *)
(* parameters, one parameter (the slot) given any identifier value.        *)

PlainId == IdStr(<<"7">>)

FmtInputs(tool, slot, v) ==
    [p \in {"workspace_id", "table_id", "record_id"} |->
        IF p = slot THEN v ELSE IF p \in IdParams(tool) THEN PlainId ELSE IdNone]

InitIds ==
    /\ proc = "serving"
    /\ environ = "env-token"
    /\ handler = NoHandler
    /\ call = NoCall
    /\ twin = NoCall
    /\ \E tool \in IdTools :
         \E slot \in IdParams(tool), v \in IdValues :
            fmt = [tool |-> tool, slot |-> slot, pc |-> "raw",
                   raw |-> FmtInputs(tool, slot, v), ids |-> FmtInputs(tool, slot, v),
                   url |-> ""]

\* workspace_id = format_id(workspace_id) ... for the tool's parameters.
FmtNormalize ==
    /\ fmt.pc = "raw"
    /\ fmt' = [fmt EXCEPT !.ids = NormalizeIds(fmt.tool, fmt.ids), !.pc = "formatted"]
    /\ UNCHANGED <<proc, environ, handler, call, twin>>

\* url = f"{meta_api}/workspace/{workspace_id}..."
FmtInterpolate ==
    /\ fmt.pc = "formatted"
    /\ fmt' = [fmt EXCEPT !.url = ToolUrl(fmt.tool, "x", fmt.ids), !.pc = "interpolated"]
    /\ UNCHANGED <<proc, environ, handler, call, twin>>

NextIds ==
    \/ FmtNormalize
    \/ FmtInterpolate

SpecIds == InitIds /\ [][NextIds]_vars

---------------------------------------------------------------------------
(* Properties *)

Done(c) == c.pc = "done"
GotResponse(c) == c.response.kind = "response"
DirectCaller == handler.tool = "make_api_request"
IsErrorDescriptor(v) ==
    v.type = "object" /\ Len(v.members) = 1 /\ v.members[1][1] = "error"

\* C1: for each of GET, POST, PUT, DELETE and PATCH, and whatever body, query
\* parameters, file payload and debug flag the call has, a call whose response
\* has status 200 and a body that decodes as JSON returns exactly the decoded
\* value, and that is what its caller has.
C1_SuccessPassesThrough ==
    (Done(call) /\ call.method \in SupportedMethods /\ GotResponse(call)
        /\ call.response.status_code = 200 /\ Decodable(call.response.text))
    => /\ call.returned /\ ~call.raised
       /\ call.result = ResponseJson(call.response.text).value
       /\ (DirectCaller /\ handler.pc # "awaiting")
            => (handler.pc = "returned" /\ handler.out = call.result)

C1_Witness ==
    /\ Done(call) /\ call.method = "POST" /\ call.data = RecordData
    /\ Truthy(call.files)
    /\ call.response.status_code = 200
    /\ call.response.text = "{\"id\":1,\"name\":\"default\"}"
    /\ call.result = Obj(<< <<"id", "1">>, <<"name", "\"default\"">> >>)

\* C2: for each supported method, a call whose response has a status other than
\* 200 returns the error descriptor whose message names that status code (and
\* no other status code), whatever the response body is.
C2_StatusErrorNamesStatus ==
    (Done(call) /\ call.method \in SupportedMethods /\ GotResponse(call)
        /\ call.response.status_code # 200)
    => /\ call.returned /\ ~call.raised
       /\ call.result = ErrorDescriptor(StatusErrorMessage(call.response.status_code))
       /\ \A s \in StatusCodes :
            call.result = ErrorDescriptor(StatusErrorMessage(s))
                => s = call.response.status_code

C2_Witness ==
    /\ Done(call) /\ call.method = "DELETE"
    /\ call.response.status_code = 404
    /\ call.response.text = "{\"id\":1,\"name\":\"default\"}"
    /\ call.result = ErrorDescriptor("API request failed with status 404")

\* C3: a call never stops before it is over, and when it is over it has returned
\* one value and raised nothing: the decoded body for a 200 response that
\* decodes, and an error descriptor in every other case (another status, a body
\* that does not decode, a transport fault, a method without a branch); its
\* caller has that value.
C3_AlwaysOneResult ==
    /\ call.pc \in {"entry", "select", "await", "status", "except"}
         => ENABLED (ApiEntry \/ ApiSelect \/ ApiAwait \/ ApiStatus \/ ApiExcept)
    /\ ~call.raised
    /\ call.returned <=> Done(call)
    /\ Done(call) =>
         IF GotResponse(call) /\ call.response.status_code = 200
                /\ Decodable(call.response.text)
         THEN call.result = ResponseJson(call.response.text).value
         ELSE IsErrorDescriptor(call.result)
    /\ (DirectCaller /\ handler.pc # "awaiting")
         => (handler.pc = "returned" /\ handler.out = call.result)

C3_Witness ==
    /\ Done(call) /\ call.debug /\ call.method = "PUT"
    /\ call.exc.cls = "ConnectError"
    /\ call.result =
         ErrorDescriptor("Exception during API request: All connection attempts failed")
    /\ handler.pc = "returned"

\* C4: a call whose method is none of GET, POST, PUT, DELETE, PATCH never issues
\* a request, and returns the error descriptor of the unsupported-method
\* failure, which depends on nothing but the method value.
C4_UnsupportedMethodSendsNothing ==
    (call.pc # "none" /\ call.method \notin SupportedMethods)
    => /\ call.sent = << >>
       /\ ~GotResponse(call)
       /\ Done(call) =>
            /\ call.returned /\ ~call.raised
            /\ call.result = ErrorDescriptor(
                   "Exception during API request: Unsupported method: " \o call.method)

C4_Witness ==
    /\ Done(call) /\ call.method = "HEAD" /\ call.debug /\ Truthy(call.data)
    /\ call.sent = << >>
    /\ call.result =
         ErrorDescriptor("Exception during API request: Unsupported method: HEAD")

\* C5: a call whose response has status 200 and a body that does not decode as
\* JSON returns the error descriptor with the fixed parse-failure message,
\* whatever the kind of decode failure.
C5_DecodeFailureIsParseFailure ==
    (Done(call) /\ GotResponse(call) /\ call.response.status_code = 200
        /\ ~Decodable(call.response.text))
    => call.result = ErrorDescriptor("Failed to parse response as JSON")

\* No credential: the config has no api_token entry and XANO_API_TOKEN is unset.
CredentialMissing ==
    /\ ~(ConfigTruthy(handler.config) /\ "api_token" \in handler.config.keys)
    /\ environ = PyNone

\* C6: while no credential is available no tool handler has started, returned a
\* result or issued a request.
C6_NoToolRunsWithoutCredential ==
    (handler.tool \in Tools /\ CredentialMissing)
    => handler.pc \notin {"started", "authorized", "awaiting", "returned", "raised"}

\* C7: a call and the same call with the debug flag inverted issue the same
\* requests at every point, and end with the same Result.
C7_DebugChangesOnlyTheLog ==
    /\ call.pc # "none" =>
          /\ twin.debug # call.debug
          /\ twin.sent = call.sent
          /\ twin.pc = call.pc
    /\ Done(call) =>
          /\ twin.result = call.result
          /\ twin.returned = call.returned
          /\ twin.raised = call.raised

C7_Witness ==
    /\ Done(call) /\ call.debug /\ call.method = "POST" /\ Truthy(call.data)
    /\ Len(call.log) >= 3 /\ twin.log = << >>
    /\ Len(call.sent) = 1 /\ twin.sent = call.sent
    /\ call.result = twin.result

\* The call ended otherwise than with the decoded body of a 200 response.
DispatcherFailed ==
    /\ Done(call)
    /\ ~(GotResponse(call) /\ call.response.status_code = 200
           /\ Decodable(call.response.text))

\* C8: a tool whose make_api_request call ended with an error descriptor
\* returns that error descriptor to the runtime.
C8_ToolPassesErrorThrough ==
    (handler.tool \in AuthTools /\ handler.pc \in {"returned", "raised"}
        /\ DispatcherFailed)
    => (handler.pc = "returned" /\ handler.out = call.result)

Usable(token) == token \notin {PyNone, ""}

\* C10: the token a tool has from get_token is the config's api_token entry when
\* the config has one, and otherwise the environment's XANO_API_TOKEN; and it is
\* a usable token, so that no request goes out without one.
C10_TokenResolvedAndUsable ==
    (handler.tool \in AuthTools /\ handler.pc \in {"authorized", "awaiting", "returned"})
    => /\ handler.token =
            IF ConfigTruthy(handler.config) /\ "api_token" \in handler.config.keys
            THEN handler.config.api_token ELSE environ
       /\ Usable(handler.token)

\* The identifier v wrapped in one more pair of double quotes.
Quoted(v) == IdStr(<<DQ>> \o PyStr(v) \o <<DQ>>)

NoSurroundingQuote(t) == t = << >> \/ (Head(t) # DQ /\ t[Len(t)] # DQ)

\* C9: for every tool with identifier parameters and each of its parameters, the
\* URL built for an identifier is the URL built for the same identifier wrapped
\* in double quotes, and an integer identifier builds the URL of its decimal
\* text; a formatted identifier has no double quote left at either end, and
\* formatting it again changes nothing.
C9_QuotedAndBareSameUrl ==
    LET v == fmt.raw[fmt.slot]
    IN  /\ (fmt.pc = "interpolated" /\ v.kind # "none") =>
              /\ HandlerUrl(fmt.tool, "x", [fmt.raw EXCEPT ![fmt.slot] = Quoted(v)])
                    = fmt.url
              /\ HandlerUrl(fmt.tool, "x", [fmt.raw EXCEPT ![fmt.slot] = IdStr(PyStr(v))])
                    = fmt.url
        /\ fmt.pc \in {"formatted", "interpolated"} =>
              \A p \in IdParams(fmt.tool) :
                 /\ format_id(fmt.ids[p]) = fmt.ids[p]
                 /\ fmt.raw[p].kind # "none" => fmt.ids[p].kind = "str"
                 /\ NoSurroundingQuote(fmt.ids[p].chars)

C9_Witness ==
    /\ fmt.pc = "interpolated"
    /\ fmt.tool = "xano_get_table_record"
    /\ fmt.slot = "record_id"
    /\ fmt.raw.record_id = IdStr(<<DQ, "2", DQ>>)
    /\ fmt.ids.record_id = IdStr(<<"2">>)
    /\ fmt.url = "https://x.n7c.xano.io/api:meta/workspace/7/table/7/content/2"
    /\ HandlerUrl(fmt.tool, "x", [fmt.raw EXCEPT !.record_id = IdInt(2)]) = fmt.url

\* The call has gone through its method branch.
PastSelect(c) == c.pc \in {"await", "status", "except", "done"}

\* C11: a call with a supported method has issued no request before its method
\* branch and exactly one, the request of that branch, from then on, whatever it
\* ends with (a 200 response, another status, a body that does not decode, a
\* transport fault); no step of the call after the branch sends again or takes
\* the request back.
C11_ExactlyOneRequest ==
    /\ [](call.method \in SupportedMethods =>
            /\ call.pc \in {"entry", "select"} => call.sent = << >>
            /\ PastSelect(call) => call.sent = <<MethodRequest(call)>>)
    /\ [][(call.method \in SupportedMethods /\ PastSelect(call) /\ call'.pc # "none")
            => call'.sent = call.sent]_vars

C11_Witness ==
    /\ Done(call) /\ call.method = "PATCH"
    /\ call.exc.cls = "ReadTimeout"
    /\ IsErrorDescriptor(call.result)
    /\ Len(call.sent) = 1 /\ call.sent[1].verb = "PATCH"

=============================================================================
